---- MODULE Spec2Model ----
(***************************************************************************)
(* Model of file-cursor (src/file-cursor.mjs): a buffered cursor over an   *)
(* open file.  The file holds two classes called FileCursor:               *)
(*   - the iterable variant (lines 36-226): synchronous set/skip, async    *)
(*     seek and next, fields _buffer, _index, _position, _eof;             *)
(*   - the windowed variant (lines 233-429): async set/skip/seek/read/     *)
(*     seekUntil, fields buffer, relIndex, absIndex, eofReached and the    *)
(*     virtual window startFrom..endAt.                                    *)
(* Calls are serialized: an action is one whole call, and the next call    *)
(* starts once the caller has taken the outcome of the last (TakeResult).  *)
(***************************************************************************)
EXTENDS Integers, Sequences, FiniteSets

\* ---------------------------------------------------------------- bounds
\* Files of up to MaxFileLen bytes, explicit buffer sizes up to MaxBufferSize
\* (besides the default), windows starting at up to MaxStartFrom.
MaxFileLen == 4
MaxBufferSize == 3
MaxStartFrom == 2
\* Lengths asked for reach the whole file, positions and window ends reach
\* past its last byte.
MaxLength == MaxFileLen
MaxPosition == MaxFileLen + 1
MaxEndAt == MaxFileLen

\* ------------------------------------------------------- program constants
DefaultBufferSize == 16384
undefinedByte == -1

\* ------------------------------------------------------------ JavaScript values
\* A value handed to the API: an integer number, a non-integer number (1.5),
\* +Infinity, a string ('42'), null or undefined.
Num(n) == [kind |-> "int", val |-> n]
Frac == [kind |-> "frac", val |-> 1]
Infinity == [kind |-> "inf", val |-> 0]
Str == [kind |-> "string", val |-> 42]
Null == [kind |-> "null", val |-> 0]
Handle == [kind |-> "object", val |-> 3]
Undefined == [kind |-> "undefined", val |-> 0]

NonIntegers == {Frac, Str, Null}

isInteger(value) == value.kind = "int"

NumberIsInteger(value) == value.kind = "int"

\* JavaScript truthiness, as used by `x || dflt`.
Falsy(value) ==
    \/ value.kind \in {"undefined", "null"}
    \/ value.kind = "int" /\ value.val = 0

Min(a, b) == IF a <= b THEN a ELSE b

Max(a, b) == IF a >= b THEN a ELSE b

\* Buffer.prototype.subarray / slice (start, end): both ends clamped.
Slice(buf, start, end) ==
    SubSeq(buf, Min(start, Len(buf)) + 1, Min(end, Len(buf)))

RECURSIVE Concat(_)
Concat(chunks) ==
    IF chunks = <<>> THEN <<>> ELSE Head(chunks) \o Concat(Tail(chunks))

VARIABLES
    file,        \* the bytes of the open file (never written)
    cursor,      \* "none" before construction, then "iterable", "windowed" or "failed"
    fd,          \* both variants: the file descriptor kept by the constructor
    bufferSize,  \* both variants
    _buffer, _index, _position, _eof,                        \* iterable variant
    buffer, relIndex, absIndex, eofReached, startFrom, endAt, \* windowed variant
    call,        \* the last call: operation, argument, outcome, reads issued, state before
    delivered,   \* results delivered so far by sequential reading since construction
    sequential,  \* TRUE while every call so far was a sequential read
    origin,      \* the position the sequential run started from
    shortFetch,  \* iterable variant: a read came back short since the position was last set
    fetches,     \* reads issued so far by the sequential run
    pending      \* iterable variant, overlapping calls: each caller's seek in flight

vars == <<file, cursor, fd, bufferSize, _buffer, _index, _position, _eof,
          buffer, relIndex, absIndex, eofReached, startFrom, endAt,
          call, delivered, sequential, origin, shortFetch, fetches,
          pending>>

iterVars == <<_buffer, _index, _position, _eof>>

winVars == <<buffer, relIndex, absIndex, eofReached, startFrom, endAt>>

\* ------------------------------------------------------------ the byte source
\* The file of length len: the byte at offset k is 65 + k, so every offset
\* is told apart by its content.
FileOf(len) == [i \in 1..len |-> 64 + i]

Files == {FileOf(len) : len \in 0..MaxFileLen}

\* fs.read(fd, buffer, 0, length, position): the bytes actually read.
fsRead(length, position) ==
    SubSeq(file, position + 1, Min(position + length, Len(file)))

\* The source bytes at offsets [from, to).
Bytes(from, to) == SubSeq(file, from + 1, Min(to, Len(file)))

\* ================================================================ iterable variant
\* The object's fields as one record, so that methods are functions of it.
IterCursor ==
    [fd |-> fd, bufferSize |-> bufferSize, _buffer |-> _buffer,
     _index |-> _index, _position |-> _position, _eof |-> _eof]

\* get eof
Iter_eof(c) == c._eof = TRUE /\ c._index >= Len(c._buffer)

\* get position
Iter_position(c) == c._position + c._index

\* The setter clearing the end-of-file flag before it validates its argument.
Iter_setPosition_resetFirst(c, value) ==
    LET c1 == [c EXCEPT !._eof = FALSE]
    IN  IF ~isInteger(value) \/ value.val < 0
        THEN [threw |-> "TypeError", c |-> c1]
        ELSE IF /\ value.val >= c1._position
                /\ value.val < c1._position + Len(c1._buffer)
        THEN [threw |-> "none",
              c |-> [c1 EXCEPT !._index = value.val - c1._position]]
        ELSE [threw |-> "none",
              c |-> [c1 EXCEPT !._buffer = <<>>, !._index = 0,
                               !._position = value.val]]

\* The setter dropping the cache on every call, cached target or not.
Iter_setPosition_alwaysReset(c, value) ==
    IF ~isInteger(value) \/ value.val < 0
    THEN [threw |-> "TypeError", c |-> c]
    ELSE [threw |-> "none",
          c |-> [c EXCEPT !._eof = FALSE, !._buffer = <<>>, !._index = 0,
                          !._position = value.val]]

\* The setter keeping the cached bytes when it moves outside the cache: the
\* base changes under a buffer read elsewhere.
Iter_setPosition_keepBuffer(c, value) ==
    IF ~isInteger(value) \/ value.val < 0
    THEN [threw |-> "TypeError", c |-> c]
    ELSE LET c1 == [c EXCEPT !._eof = FALSE]
         IN  IF /\ value.val >= c1._position
                /\ value.val < c1._position + Len(c1._buffer)
             THEN [threw |-> "none",
                   c |-> [c1 EXCEPT !._index = value.val - c1._position]]
             ELSE [threw |-> "none",
                   c |-> [c1 EXCEPT !._index = 0, !._position = value.val]]

\* set position (value): [threw, c]
Iter_setPosition(c, value) ==
    IF ~isInteger(value) \/ value.val < 0
    THEN [threw |-> "TypeError", c |-> c]
    ELSE LET c1 == [c EXCEPT !._eof = FALSE]
         IN  IF /\ value.val >= c1._position
                /\ value.val < c1._position + Len(c1._buffer)
             THEN [threw |-> "none",
                   c |-> [c1 EXCEPT !._index = value.val - c1._position]]
             ELSE [threw |-> "none",
                   c |-> [c1 EXCEPT !._buffer = <<>>, !._index = 0,
                                    !._position = value.val]]

\* seek() whose read starts at the cache base, so that it asks again for the
\* bytes it has just served from the cache.
Iter_seekHead_fromBase(c, length) ==
    IF ~isInteger(length) \/ length.val < 0
    THEN [state |-> "throw", c |-> c, head |-> <<>>, length |-> 0,
          readSize |-> 0, readPosition |-> 0]
    ELSE IF length.val = 0
    THEN [state |-> "return", c |-> c, head |-> <<>>, length |-> 0,
          readSize |-> 0, readPosition |-> 0]
    ELSE LET cached == c._index < Len(c._buffer)
             offset == Min(Len(c._buffer) - c._index, length.val)
             head == IF cached
                     THEN Slice(c._buffer, c._index, c._index + offset)
                     ELSE <<>>
             c1 == IF cached THEN [c EXCEPT !._index = c._index + offset] ELSE c
             rest == length.val - Len(head)
         IN  IF cached /\ Len(head) >= length.val
             THEN [state |-> "return", c |-> c1, head |-> head, length |-> rest,
                   readSize |-> 0, readPosition |-> 0]
             ELSE IF c1._eof
             THEN [state |-> "return", c |-> c1, head |-> head, length |-> rest,
                   readSize |-> 0, readPosition |-> 0]
             ELSE [state |-> "await", c |-> c1, head |-> head, length |-> rest,
                   readSize |-> Max(c1.bufferSize, rest),
                   readPosition |-> c1._position]

\* seek() that reads whenever the cache does not cover the request, whether
\* or not end-of-data was seen.
Iter_seekHead_ignoreEof(c, length) ==
    IF ~isInteger(length) \/ length.val < 0
    THEN [state |-> "throw", c |-> c, head |-> <<>>, length |-> 0,
          readSize |-> 0, readPosition |-> 0]
    ELSE IF length.val = 0
    THEN [state |-> "return", c |-> c, head |-> <<>>, length |-> 0,
          readSize |-> 0, readPosition |-> 0]
    ELSE LET cached == c._index < Len(c._buffer)
             offset == Min(Len(c._buffer) - c._index, length.val)
             head == IF cached
                     THEN Slice(c._buffer, c._index, c._index + offset)
                     ELSE <<>>
             c1 == IF cached THEN [c EXCEPT !._index = c._index + offset] ELSE c
             rest == length.val - Len(head)
         IN  IF cached /\ Len(head) >= length.val
             THEN [state |-> "return", c |-> c1, head |-> head, length |-> rest,
                   readSize |-> 0, readPosition |-> 0]
             ELSE [state |-> "await", c |-> c1, head |-> head, length |-> rest,
                   readSize |-> Max(c1.bufferSize, rest),
                   readPosition |-> Iter_position(c1)]

\* seek(length) up to its await: validation, the head taken from the cache, and
\* the read it is about to issue. state is "throw", "return" or "await".
Iter_seekHead(c, length) ==
    IF ~isInteger(length) \/ length.val < 0
    THEN [state |-> "throw", c |-> c, head |-> <<>>, length |-> 0,
          readSize |-> 0, readPosition |-> 0]
    ELSE IF length.val = 0
    THEN [state |-> "return", c |-> c, head |-> <<>>, length |-> 0,
          readSize |-> 0, readPosition |-> 0]
    ELSE LET cached == c._index < Len(c._buffer)
             offset == Min(Len(c._buffer) - c._index, length.val)
             head == IF cached
                     THEN Slice(c._buffer, c._index, c._index + offset)
                     ELSE <<>>
             c1 == IF cached THEN [c EXCEPT !._index = c._index + offset] ELSE c
             rest == length.val - Len(head)
         IN  IF cached /\ Len(head) >= length.val
             THEN [state |-> "return", c |-> c1, head |-> head, length |-> rest,
                   readSize |-> 0, readPosition |-> 0]
             ELSE IF c1._eof
             THEN [state |-> "return", c |-> c1, head |-> head, length |-> rest,
                   readSize |-> 0, readPosition |-> 0]
             ELSE [state |-> "await", c |-> c1, head |-> head, length |-> rest,
                   readSize |-> Max(c1.bufferSize, rest),
                   readPosition |-> Iter_position(c1)]

\* seek() resuming without moving the absolute position to where the new
\* buffer was read from.
Iter_seekTail_noMove(c, h, data) ==
    LET c1 == [c EXCEPT !._buffer = data, !._eof = Len(data) < h.readSize]
        c3 == [c1 EXCEPT !._index = Min(h.length, Len(c1._buffer))]
        tail == Slice(c3._buffer, 0, c3._index)
    IN  [c |-> c3, result |-> h.head \o tail]

\* seek() resuming with the end-of-data flag raised also by a read that came
\* back with exactly the bytes asked for.
Iter_seekTail_eofOnExact(c, h, data) ==
    LET c1 == [c EXCEPT !._buffer = data, !._eof = Len(data) <= h.readSize]
        c2 == [c1 EXCEPT !._position = Iter_position(c1)]
        c3 == [c2 EXCEPT !._index = Min(h.length, Len(c2._buffer))]
        tail == Slice(c3._buffer, 0, c3._index)
    IN  [c |-> c3, result |-> h.head \o tail]

\* seek() resuming with the cache base set to the position its own read was
\* issued at, whatever the object's position has become meanwhile.
Iter_seekTail_atReadPosition(c, h, data) ==
    LET c1 == [c EXCEPT !._buffer = data, !._eof = Len(data) < h.readSize]
        c2 == [c1 EXCEPT !._position = h.readPosition]
        c3 == [c2 EXCEPT !._index = Min(h.length, Len(c2._buffer))]
        tail == Slice(c3._buffer, 0, c3._index)
    IN  [c |-> c3, result |-> h.head \o tail]

\* seek(length) after its await: data is what readPromise resolved with, c the
\* object as it is when the call resumes, h the call's locals.
Iter_seekTail(c, h, data) ==
    LET c1 == [c EXCEPT !._buffer = data, !._eof = Len(data) < h.readSize]
        c2 == [c1 EXCEPT !._position = Iter_position(c1)]
        c3 == [c2 EXCEPT !._index = Min(h.length, Len(c2._buffer))]
        tail == Slice(c3._buffer, 0, c3._index)
    IN  [c |-> c3, result |-> h.head \o tail]

\* seek() that fetches in bufferSize pieces: a second read when the rest
\* exceeds one buffer.
Iter_seek_chunked(c, length) ==
    LET h == Iter_seekHead(c, length)
    IN  IF h.state = "throw"
        THEN [threw |-> "TypeError", c |-> c, result |-> <<>>, reads |-> <<>>]
        ELSE IF h.state = "return"
        THEN [threw |-> "none", c |-> h.c, result |-> h.head, reads |-> <<>>]
        ELSE LET t == Iter_seekTail(h.c, h, fsRead(h.readSize, h.readPosition))
                 first == [length |-> c.bufferSize, position |-> h.readPosition]
                 second == [length |-> h.readSize - c.bufferSize,
                            position |-> h.readPosition + c.bufferSize]
             IN  [threw |-> "none", c |-> t.c, result |-> t.result,
                  reads |-> IF h.readSize > c.bufferSize
                            THEN <<first, second>> ELSE <<first>>]

\* seek(length), the whole call: [threw, c, result, reads]
Iter_seek(c, length) ==
    LET h == Iter_seekHead(c, length)
    IN  IF h.state = "throw"
        THEN [threw |-> "TypeError", c |-> c, result |-> <<>>, reads |-> <<>>]
        ELSE IF h.state = "return"
        THEN [threw |-> "none", c |-> h.c, result |-> h.head, reads |-> <<>>]
        ELSE LET t == Iter_seekTail(h.c, h, fsRead(h.readSize, h.readPosition))
             IN  [threw |-> "none", c |-> t.c, result |-> t.result,
                  reads |-> <<[length |-> h.readSize, position |-> h.readPosition]>>]

\* next() that takes a chunk shorter than bufferSize for the end of the
\* iteration and drops it.
Iter_next_dropShort(c) ==
    IF Iter_eof(c)
    THEN [threw |-> "none", c |-> c, result |-> <<>>, reads |-> <<>>, done |-> TRUE]
    ELSE LET r == Iter_seek(c, Num(c.bufferSize))
         IN  IF Len(r.result) < c.bufferSize
             THEN [threw |-> r.threw, c |-> r.c, result |-> <<>>, reads |-> r.reads,
                   done |-> TRUE]
             ELSE [threw |-> r.threw, c |-> r.c, result |-> r.result,
                   reads |-> r.reads, done |-> FALSE]

\* next() that never ends the iteration: at end-of-data it goes on yielding
\* empty chunks.
Iter_next_neverDone(c) ==
    IF Iter_eof(c)
    THEN [threw |-> "none", c |-> c, result |-> <<>>, reads |-> <<>>, done |-> FALSE]
    ELSE LET r == Iter_seek(c, Num(c.bufferSize))
         IN  [threw |-> r.threw, c |-> r.c, result |-> r.result, reads |-> r.reads,
              done |-> FALSE]

\* next(): [threw, c, result, reads, done]
Iter_next(c) ==
    IF Iter_eof(c)
    THEN [threw |-> "none", c |-> c, result |-> <<>>, reads |-> <<>>, done |-> TRUE]
    ELSE LET r == Iter_seek(c, Num(c.bufferSize))
         IN  [threw |-> r.threw, c |-> r.c, result |-> r.result, reads |-> r.reads,
              done |-> (Len(r.result) = 0)]

\* set(position): [threw, c]
Iter_set(c, position) == Iter_setPosition(c, position)

\* skip() counting from the cache base instead of the current position.
Iter_skip_fromBase(c, offset) ==
    IF ~isInteger(offset) \/ offset.val < 0
    THEN [threw |-> "TypeError", c |-> c]
    ELSE IF offset.val > 0
    THEN Iter_set(c, Num(c._position + offset.val))
    ELSE [threw |-> "none", c |-> c]

\* skip(offset): [threw, c]
Iter_skip(c, offset) ==
    IF ~isInteger(offset) \/ offset.val < 0
    THEN [threw |-> "TypeError", c |-> c]
    ELSE IF offset.val > 0
    THEN Iter_set(c, Num(Iter_position(c) + offset.val))
    ELSE [threw |-> "none", c |-> c]

\* constructor(options): [threw, c]
Iter_constructor(options) ==
    IF options.kind # "object"
    THEN [threw |-> "TypeError", c |-> IterCursor]
    ELSE IF options.fd = Undefined /\ options.fileHandle = Undefined
    THEN [threw |-> "Error", c |-> IterCursor]
    ELSE LET size == IF Falsy(options.bufferSize)
                     THEN Num(DefaultBufferSize) ELSE options.bufferSize
             position == IF Falsy(options.position)
                         THEN Num(0) ELSE options.position
         IN  IF ~isInteger(size) \/ size.val <= 0
             THEN [threw |-> "TypeError", c |-> IterCursor]
             ELSE IF ~isInteger(position) \/ position.val < 0
             THEN [threw |-> "TypeError", c |-> IterCursor]
             ELSE [threw |-> "none",
                   c |-> [fd |-> IF options.fd # Undefined
                                 THEN options.fd.val ELSE options.fileHandle.val,
                          bufferSize |-> size.val, _buffer |-> <<>>, _index |-> 0,
                          _position |-> position.val, _eof |-> FALSE]]

\* ================================================================ windowed variant
\* n >= v and v < n for a bound v that is an integer or +Infinity.
Gte(n, v) == IF v.kind = "inf" THEN FALSE ELSE n >= v.val

Lt(v, n) == IF v.kind = "inf" THEN FALSE ELSE v.val < n

WinCursor ==
    [fd |-> fd, bufferSize |-> bufferSize, startFrom |-> startFrom, endAt |-> endAt,
     absIndex |-> absIndex, relIndex |-> relIndex, buffer |-> buffer,
     eofReached |-> eofReached]

\* get EOB
Win_EOB(c) == c.relIndex >= Len(c.buffer)

\* get EOF
Win_EOF(c) == c.eofReached /\ Win_EOB(c)

\* get position
Win_position(c) == c.absIndex + c.relIndex

\* A fetch that always asks for bufferSize bytes, whatever is left of the
\* window.
Win_allocSize_unclipped(c, realPosition) ==
    c.bufferSize

\* The size of the buffer set() allocates and asks the file to fill.
Win_allocSize(c, realPosition) ==
    IF Gte(realPosition + c.bufferSize, c.endAt)
    THEN c.endAt.val + 1 - realPosition
    ELSE c.bufferSize

\* set(position): [threw, c, reads]
Win_set(c, position) ==
    IF ~NumberIsInteger(position) \/ position.val < 0
    THEN [threw |-> "TypeError", c |-> c, reads |-> <<>>]
    ELSE IF /\ position.val >= c.absIndex
            /\ position.val < c.absIndex + Len(c.buffer)
    THEN [threw |-> "none", c |-> [c EXCEPT !.relIndex = position.val - c.absIndex],
          reads |-> <<>>]
    ELSE LET c1 == [c EXCEPT !.absIndex = position.val, !.relIndex = 0]
             realPosition == c1.startFrom + position.val
         IN  IF Gte(realPosition, c1.endAt)
             THEN [threw |-> "none",
                   c |-> [c1 EXCEPT !.eofReached = TRUE, !.buffer = <<>>],
                   reads |-> <<>>]
             ELSE LET eofVirtual == Gte(realPosition + c1.bufferSize, c1.endAt)
                      size == Win_allocSize(c1, realPosition)
                      data == fsRead(size, realPosition)
                      bytesRead == Len(data)
                      eofReal == bytesRead < size
                  IN  [threw |-> "none",
                       c |-> [c1 EXCEPT !.eofReached = eofReal \/ eofVirtual,
                                        !.buffer = data],
                       reads |-> <<[length |-> size, position |-> realPosition]>>]

\* The predicates handed to seekUntil: (byte, position) => boolean.
Always == [kind |-> "always", val |-> 0]
Never == [kind |-> "never", val |-> 0]
ByteAtLeast(b) == [kind |-> "byteAtLeast", val |-> b]
PositionIs(p) == [kind |-> "positionIs", val |-> p]

Apply(predicate, byte, position) ==
    CASE predicate.kind = "always" -> TRUE
      [] predicate.kind = "never" -> FALSE
      [] predicate.kind = "byteAtLeast" -> byte >= predicate.val
      [] predicate.kind = "positionIs" -> position = predicate.val

\* The while loop of seekUntil: start and chunks are its locals, reads and calls
\* log the reads issued and the predicate invocations made.
RECURSIVE Win_seekUntilLoop(_, _, _, _, _, _)
Win_seekUntilLoop(c, predicate, start, chunks, reads, calls) ==
    LET eob == Win_EOB(c)
        s == IF eob
             THEN Win_set(c, Num(c.absIndex + Len(c.buffer)))
             ELSE [threw |-> "none", c |-> c, reads |-> <<>>]
        chunks1 == IF eob
                   THEN Append(chunks, Slice(c.buffer, start, Len(c.buffer)))
                   ELSE chunks
        c1 == s.c
        start1 == IF eob THEN c1.relIndex ELSE start
        position == Win_position(c1)
        byte == IF c1.relIndex < Len(c1.buffer)
                THEN c1.buffer[c1.relIndex + 1]
                ELSE undefinedByte
        c2 == [c1 EXCEPT !.relIndex = c1.relIndex + 1]
        done == Apply(predicate, byte, position) \/ Win_EOF(c2)
        calls1 == Append(calls, [byte |-> byte, position |-> position])
    IN  IF done
        THEN [threw |-> "none", c |-> c2,
              result |-> Concat(Append(chunks1, Slice(c2.buffer, start1, c2.relIndex))),
              reads |-> reads \o s.reads, calls |-> calls1]
        ELSE Win_seekUntilLoop(c2, predicate, start1, chunks1, reads \o s.reads, calls1)

\* seekUntil(predicate): [threw, c, result, reads, calls]
Win_seekUntil(c, predicate) ==
    IF Win_EOF(c)
    THEN [threw |-> "none", c |-> c, result |-> <<>>, reads |-> <<>>, calls |-> <<>>]
    ELSE Win_seekUntilLoop(c, predicate, c.relIndex, <<>>, <<>>, <<>>)

\* seek() without the early return for length 0: it goes into seekUntil.
Win_seek_noZeroReturn(c, length) ==
    IF ~NumberIsInteger(length) \/ length.val < 0
    THEN [threw |-> "TypeError", c |-> c, result |-> <<>>, reads |-> <<>>,
          calls |-> <<>>]
    ELSE Win_seekUntil(c, PositionIs(Win_position(c) + length.val - 1))

\* seek(length): [threw, c, result, reads, calls]
Win_seek(c, length) ==
    IF ~NumberIsInteger(length) \/ length.val < 0
    THEN [threw |-> "TypeError", c |-> c, result |-> <<>>, reads |-> <<>>,
          calls |-> <<>>]
    ELSE IF length.val = 0
    THEN [threw |-> "none", c |-> c, result |-> <<>>, reads |-> <<>>, calls |-> <<>>]
    ELSE Win_seekUntil(c, PositionIs(Win_position(c) + length.val - 1))

\* read(length): as seek, throwing Error('Truncated (EOF)') on a short result.
\* When it throws, result holds the bytes seek consumed, which the caller
\* never receives.
Win_read(c, length) ==
    LET r == Win_seek(c, length)
    IN  IF r.threw = "none" /\ Len(r.result) < length.val
        THEN [r EXCEPT !.threw = "Truncated"]
        ELSE r

\* skip(length): [threw, c, reads]
Win_skip(c, length) ==
    IF ~NumberIsInteger(length) \/ length.val < 0
    THEN [threw |-> "TypeError", c |-> c, reads |-> <<>>]
    ELSE Win_set(c, Num(Win_position(c) + length.val))

\* Object(options): undefined and null become an object without properties.
ObjectOf(options) ==
    IF options.kind = "object"
    THEN options
    ELSE [kind |-> "object", fileHandle |-> Undefined, fileDescriptor |-> Undefined,
          bufferSize |-> Undefined, startFrom |-> Undefined, endAt |-> Undefined]

\* The constructor taking its defaults with ||, as the iterable variant does:
\* a bufferSize of 0 silently becomes the default.
Win_constructor_falsyDefaults(opts) ==
    LET options == ObjectOf(opts)
        hasFd == \/ options.fileHandle # Undefined
                 \/ options.fileDescriptor.kind \in {"int", "frac", "inf"}
        size == IF Falsy(options.bufferSize)
                THEN Num(DefaultBufferSize) ELSE options.bufferSize
        from == IF Falsy(options.startFrom) THEN Num(0) ELSE options.startFrom
        to == IF options.endAt = Undefined THEN Infinity ELSE options.endAt
    IN  IF ~hasFd
        THEN [threw |-> "Error", c |-> WinCursor]
        ELSE IF ~NumberIsInteger(size) \/ size.val <= 0
        THEN [threw |-> "TypeError", c |-> WinCursor]
        ELSE IF ~NumberIsInteger(from) \/ from.val < 0
        THEN [threw |-> "TypeError", c |-> WinCursor]
        ELSE IF to # Infinity /\ ~NumberIsInteger(to)
        THEN [threw |-> "TypeError", c |-> WinCursor]
        ELSE IF Lt(to, from.val)
        THEN [threw |-> "Error", c |-> WinCursor]
        ELSE [threw |-> "none",
              c |-> [fd |-> IF options.fileHandle # Undefined
                            THEN options.fileHandle.val
                            ELSE options.fileDescriptor.val,
                     bufferSize |-> size.val, startFrom |-> from.val, endAt |-> to,
                     absIndex |-> 0, relIndex |-> 0, buffer |-> <<>>,
                     eofReached |-> FALSE]]

\* constructor(options): [threw, c]
Win_constructor(opts) ==
    LET options == ObjectOf(opts)
        hasFd == \/ options.fileHandle # Undefined
                 \/ options.fileDescriptor.kind \in {"int", "frac", "inf"}
        size == IF options.bufferSize = Undefined
                THEN Num(DefaultBufferSize) ELSE options.bufferSize
        from == IF options.startFrom = Undefined THEN Num(0) ELSE options.startFrom
        to == IF options.endAt = Undefined THEN Infinity ELSE options.endAt
    IN  IF ~hasFd
        THEN [threw |-> "Error", c |-> WinCursor]
        ELSE IF ~NumberIsInteger(size) \/ size.val <= 0
        THEN [threw |-> "TypeError", c |-> WinCursor]
        ELSE IF ~NumberIsInteger(from) \/ from.val < 0
        THEN [threw |-> "TypeError", c |-> WinCursor]
        ELSE IF to # Infinity /\ ~NumberIsInteger(to)
        THEN [threw |-> "TypeError", c |-> WinCursor]
        ELSE IF Lt(to, from.val)
        THEN [threw |-> "Error", c |-> WinCursor]
        ELSE [threw |-> "none",
              c |-> [fd |-> IF options.fileHandle # Undefined
                            THEN options.fileHandle.val
                            ELSE options.fileDescriptor.val,
                     bufferSize |-> size.val, startFrom |-> from.val, endAt |-> to,
                     absIndex |-> 0, relIndex |-> 0, buffer |-> <<>>,
                     eofReached |-> FALSE]]

\* ================================================================ the state machine
\* Arguments the calls are tried with: every kind of invalid value, and the
\* integers up to the bounds.
LengthArgs == NonIntegers \cup {Num(n) : n \in -1..MaxLength}

PositionArgs == NonIntegers \cup {Num(n) : n \in -1..MaxPosition}

Predicates == {Always, Never} \cup {ByteAtLeast(64 + k) : k \in 2..MaxFileLen}

BufferSizeOptions ==
    {Undefined, Str, Frac, Num(-1)} \cup {Num(n) : n \in 0..MaxBufferSize}

IterOptions ==
    {[kind |-> k, fd |-> Undefined, fileHandle |-> Undefined,
      bufferSize |-> Undefined, position |-> Undefined] : k \in {"undefined", "null"}}
    \cup
    [kind : {"object"}, fd : {Undefined, Num(3)}, fileHandle : {Undefined, Handle},
     bufferSize : BufferSizeOptions,
     position : {Undefined, Str, Frac, Num(-1)} \cup {Num(n) : n \in 0..MaxPosition}]

WinOptions ==
    {[kind |-> "undefined", fileHandle |-> Undefined, fileDescriptor |-> Undefined,
      bufferSize |-> Undefined, startFrom |-> Undefined, endAt |-> Undefined]}
    \cup
    [kind : {"object"}, fileHandle : {Undefined, Handle},
     fileDescriptor : {Undefined, Str, Num(3)},
     bufferSize : BufferSizeOptions,
     startFrom : {Undefined, Frac} \cup {Num(n) : n \in -1..MaxStartFrom},
     endAt : {Undefined, Infinity, Frac} \cup {Num(n) : n \in -1..MaxEndAt}]

\* The logical callers that may use one cursor at the same time.
Callers == {1, 2}

\* A caller with no seek in flight, and the locals of a seek that has none.
NoLocals ==
    [state |-> "return", c |-> Null, head |-> <<>>, length |-> 0,
     readSize |-> 0, readPosition |-> 0]

\* raced: another seek was awaiting its read while this one was in flight;
\* displaced: a set ran while this one awaited its read.
NoSeek ==
    [status |-> "idle", h |-> NoLocals, result |-> <<>>, raced |-> FALSE,
     displaced |-> FALSE]

NoCall ==
    [class |-> "none", op |-> "none", arg |-> Undefined, threw |-> "none", result |-> <<>>,
     reads |-> <<>>, calls |-> <<>>, done |-> FALSE, pre |-> Null]

Init ==
    /\ file \in Files
    /\ cursor = "none"
    /\ fd = 0
    /\ bufferSize = 0
    /\ _buffer = <<>> /\ _index = 0 /\ _position = 0 /\ _eof = FALSE
    /\ buffer = <<>> /\ relIndex = 0 /\ absIndex = 0 /\ eofReached = FALSE
    /\ startFrom = 0 /\ endAt = Infinity
    /\ call = NoCall
    /\ delivered = <<>>
    /\ sequential = TRUE
    /\ origin = 0
    /\ shortFetch = FALSE
    /\ fetches = 0
    /\ pending = [k \in Callers |-> NoSeek]

\* No call is in progress: the caller has taken the outcome of the last one.
\* Calls are serialized, so a call starts only then.
Idle == call.op = "none"

\* The object after a call of the iterable variant that ended with r.
IterUpdate(r) ==
    /\ fd' = r.c.fd
    /\ bufferSize' = r.c.bufferSize
    /\ _buffer' = r.c._buffer
    /\ _index' = r.c._index
    /\ _position' = r.c._position
    /\ _eof' = r.c._eof
    /\ UNCHANGED <<file, buffer, relIndex, absIndex, eofReached, startFrom, endAt,
                   pending>>

\* The object after a call of the windowed variant that ended with r.
WinUpdate(r) ==
    /\ fd' = r.c.fd
    /\ bufferSize' = r.c.bufferSize
    /\ startFrom' = r.c.startFrom
    /\ endAt' = r.c.endAt
    /\ absIndex' = r.c.absIndex
    /\ relIndex' = r.c.relIndex
    /\ buffer' = r.c.buffer
    /\ eofReached' = r.c.eofReached
    /\ UNCHANGED <<file, _buffer, _index, _position, _eof, pending>>

\* A call that is no sequential read ends the sequential run.
Jumped ==
    /\ sequential' = FALSE
    /\ delivered' = <<>>
    /\ origin' = 0
    /\ fetches' = 0

\* A sequential read adds its result to the run, if the run is still going.
Delivered(result) ==
    /\ sequential' = sequential
    /\ origin' = origin
    /\ delivered' = IF sequential /\ result # <<>>
                     THEN Append(delivered, result) ELSE delivered

\* A sequential read adds the reads it issued to the run's count.
Counted(reads) ==
    fetches' = IF sequential THEN fetches + Len(reads) ELSE 0

\* One of the reads came back with fewer bytes than it asked for.
ShortRead(reads) ==
    \E i \in 1..Len(reads) :
        Len(fsRead(reads[i].length, reads[i].position)) < reads[i].length

\* A seek of the iterable variant that issued the reads: a short one is
\* remembered until the position is set.
Fetched(reads) ==
    shortFetch' = (shortFetch \/ ShortRead(reads))

\* A call that assigns the position when moved is TRUE: the reads before it
\* no longer count.
Repositioned(moved) ==
    shortFetch' = (shortFetch /\ ~moved)

\* ---- iterable variant
IterConstruct ==
    /\ cursor = "none"
    /\ \E options \in IterOptions :
          LET r == Iter_constructor(options)
          IN  /\ cursor' = IF r.threw = "none" THEN "iterable" ELSE "failed"
              /\ IterUpdate(r)
              /\ call' = [NoCall EXCEPT !.class = "iterable", !.op = "constructor", !.arg = options,
                                        !.threw = r.threw, !.pre = IterCursor]
              /\ origin' = r.c._position
    /\ UNCHANGED <<delivered, sequential, shortFetch, fetches>>

IterSeek ==
    /\ cursor = "iterable" /\ Idle
    /\ \E length \in LengthArgs :
          LET r == Iter_seek(IterCursor, length)
          IN  /\ IterUpdate(r)
              /\ call' = [NoCall EXCEPT !.class = "iterable", !.op = "seek", !.arg = length,
                                        !.threw = r.threw, !.result = r.result,
                                        !.reads = r.reads, !.pre = IterCursor]
              /\ Fetched(r.reads)
    /\ Jumped
    /\ UNCHANGED cursor

\* next() takes no argument: r is the one outcome of the call.
IterNext ==
    /\ cursor = "iterable" /\ Idle
    /\ \E r \in {Iter_next(IterCursor)} :
           /\ IterUpdate(r)
           /\ call' = [NoCall EXCEPT !.class = "iterable", !.op = "next", !.threw = r.threw,
                                     !.result = r.result, !.reads = r.reads,
                                     !.done = r.done, !.pre = IterCursor]
           /\ Delivered(r.result)
           /\ Counted(r.reads)
           /\ Fetched(r.reads)
    /\ UNCHANGED cursor

IterAssignPosition ==
    /\ cursor = "iterable" /\ Idle
    /\ \E value \in PositionArgs :
          LET r == Iter_setPosition(IterCursor, value)
          IN  /\ IterUpdate(r)
              /\ call' = [NoCall EXCEPT !.class = "iterable", !.op = "position", !.arg = value,
                                        !.threw = r.threw, !.pre = IterCursor]
              /\ Repositioned(r.threw = "none")
    /\ Jumped
    /\ UNCHANGED cursor

IterSet ==
    /\ cursor = "iterable" /\ Idle
    /\ \E position \in PositionArgs :
          LET r == Iter_set(IterCursor, position)
          IN  /\ IterUpdate(r)
              /\ call' = [NoCall EXCEPT !.class = "iterable", !.op = "set", !.arg = position,
                                        !.threw = r.threw, !.pre = IterCursor]
              /\ Repositioned(r.threw = "none")
    /\ Jumped
    /\ UNCHANGED cursor

IterSkip ==
    /\ cursor = "iterable" /\ Idle
    /\ \E offset \in LengthArgs :
          /\ isInteger(offset) => Iter_position(IterCursor) + offset.val <= MaxPosition
          /\ LET r == Iter_skip(IterCursor, offset)
             IN  /\ IterUpdate(r)
                 /\ call' = [NoCall EXCEPT !.class = "iterable", !.op = "skip", !.arg = offset,
                                           !.threw = r.threw, !.pre = IterCursor]
                 /\ Repositioned(r.threw = "none" /\ offset.val > 0)
    /\ Jumped
    /\ UNCHANGED cursor

\* ---- windowed variant
WinConstruct ==
    /\ cursor = "none"
    /\ \E options \in WinOptions :
          LET r == Win_constructor(options)
          IN  /\ cursor' = IF r.threw = "none" THEN "windowed" ELSE "failed"
              /\ WinUpdate(r)
              /\ call' = [NoCall EXCEPT !.class = "windowed", !.op = "constructor", !.arg = options,
                                        !.threw = r.threw, !.pre = WinCursor]
    /\ UNCHANGED <<delivered, sequential, origin, shortFetch, fetches>>

WinSeek ==
    /\ cursor = "windowed" /\ Idle
    /\ \E length \in LengthArgs :
          LET r == Win_seek(WinCursor, length)
          IN  /\ WinUpdate(r)
              /\ call' = [NoCall EXCEPT !.class = "windowed", !.op = "seek", !.arg = length,
                                        !.threw = r.threw, !.result = r.result,
                                        !.reads = r.reads, !.calls = r.calls,
                                        !.pre = WinCursor]
              /\ Delivered(r.result)
              /\ Counted(r.reads)
    /\ UNCHANGED <<cursor, shortFetch>>

WinRead ==
    /\ cursor = "windowed" /\ Idle
    /\ \E length \in LengthArgs :
          LET r == Win_read(WinCursor, length)
          IN  /\ WinUpdate(r)
              /\ call' = [NoCall EXCEPT !.class = "windowed", !.op = "read", !.arg = length,
                                        !.threw = r.threw, !.result = r.result,
                                        !.reads = r.reads, !.calls = r.calls,
                                        !.pre = WinCursor]
              /\ Delivered(r.result)
              /\ Counted(r.reads)
    /\ UNCHANGED <<cursor, shortFetch>>

WinSeekUntil ==
    /\ cursor = "windowed" /\ Idle
    /\ \E predicate \in Predicates :
          LET r == Win_seekUntil(WinCursor, predicate)
          IN  /\ WinUpdate(r)
              /\ call' = [NoCall EXCEPT !.class = "windowed", !.op = "seekUntil", !.arg = predicate,
                                        !.threw = r.threw, !.result = r.result,
                                        !.reads = r.reads, !.calls = r.calls,
                                        !.pre = WinCursor]
              /\ Delivered(r.result)
              /\ Counted(r.reads)
    /\ UNCHANGED <<cursor, shortFetch>>

WinSet ==
    /\ cursor = "windowed" /\ Idle
    /\ \E position \in PositionArgs :
          LET r == Win_set(WinCursor, position)
          IN  /\ WinUpdate(r)
              /\ call' = [NoCall EXCEPT !.class = "windowed", !.op = "set", !.arg = position,
                                        !.threw = r.threw, !.reads = r.reads,
                                        !.pre = WinCursor]
    /\ Jumped
    /\ UNCHANGED <<cursor, shortFetch>>

WinSkip ==
    /\ cursor = "windowed" /\ Idle
    /\ \E length \in LengthArgs :
          /\ NumberIsInteger(length) =>
                Win_position(WinCursor) + length.val <= MaxPosition
          /\ LET r == Win_skip(WinCursor, length)
             IN  /\ WinUpdate(r)
                 /\ call' = [NoCall EXCEPT !.class = "windowed", !.op = "skip", !.arg = length,
                                           !.threw = r.threw, !.reads = r.reads,
                                           !.pre = WinCursor]
    /\ Jumped
    /\ UNCHANGED <<cursor, shortFetch>>

\* The caller takes the outcome of the call it awaited (its result or its
\* error); the cursor is as the call left it and the next call may start.
TakeResult ==
    /\ cursor \in {"iterable", "windowed"}
    /\ ~Idle
    /\ call' = NoCall
    /\ UNCHANGED <<file, cursor, fd, bufferSize, _buffer, _index, _position, _eof,
                   buffer, relIndex, absIndex, eofReached, startFrom, endAt,
                   delivered, sequential, origin, shortFetch, fetches, pending>>

Next ==
    \/ TakeResult
    \/ IterConstruct
    \/ IterSeek
    \/ IterNext
    \/ IterAssignPosition
    \/ IterSet
    \/ IterSkip
    \/ WinConstruct
    \/ WinSeek
    \/ WinRead
    \/ WinSeekUntil
    \/ WinSet
    \/ WinSkip

Spec == Init /\ [][Next]_vars

\* ---- iteration: for await (const chunk of cursor), nothing else calls the
\* cursor. The loop calls next(), awaits its outcome and calls next() again.
NextIterate ==
    \/ IterConstruct
    \/ IterNext
    \/ TakeResult

\* The loop keeps going: an awaited next() settles and the loop takes its
\* outcome, and having taken it the loop calls next() again.
Fairness ==
    /\ WF_vars(IterNext)
    /\ WF_vars(TakeResult)

SpecIterate == Init /\ [][NextIterate]_vars /\ Fairness

\* ---- overlapping calls: two callers use one iterable cursor without
\* waiting for each other. Each starts one seek: it runs up to its await, the
\* other caller runs, and the seek resumes on the object as it then is.
\* Before and after, the cursor is used with one seek at a time.

\* The fields of the iterable object become those of c.
IterFields(c) ==
    /\ fd' = c.fd
    /\ bufferSize' = c.bufferSize
    /\ _buffer' = c._buffer
    /\ _index' = c._index
    /\ _position' = c._position
    /\ _eof' = c._eof
    /\ UNCHANGED <<file, cursor, buffer, relIndex, absIndex, eofReached, startFrom, endAt,
                   call, delivered, sequential, origin, shortFetch, fetches>>

\* The callers other than k whose seek awaits its read.
Awaiting(k) == {j \in Callers \ {k} : pending[j].status = "awaiting"}

\* Caller k has started a seek, its record now mine, while the seeks of
\* Awaiting(k) were in flight.
Overlapped(k, mine) ==
    [j \in Callers |->
        IF j = k THEN mine
        ELSE IF j \in Awaiting(k) THEN [pending[j] EXCEPT !.raced = TRUE]
        ELSE pending[j]]

\* Caller k has set the position while the seeks of Awaiting(k) were in
\* flight.
Displaced(k) ==
    [j \in Callers |->
        IF j \in Awaiting(k) THEN [pending[j] EXCEPT !.displaced = TRUE]
        ELSE pending[j]]

\* seek(length) up to its await: the head is taken from the cache; the call
\* returns at once or issues its read and waits.
OverlapSeek ==
    /\ cursor = "iterable" /\ Idle
    /\ \E k \in Callers, length \in 1..MaxLength :
          /\ pending[k].status = "idle"
          /\ LET h == Iter_seekHead(IterCursor, Num(length))
                 mine == IF h.state = "await"
                         THEN [status |-> "awaiting", h |-> [h EXCEPT !.c = Null],
                               result |-> <<>>, raced |-> Awaiting(k) # {},
                               displaced |-> FALSE]
                         ELSE [status |-> "returned", h |-> NoLocals,
                               result |-> h.head, raced |-> Awaiting(k) # {},
                               displaced |-> FALSE]
             IN  /\ IterFields(h.c)
                 /\ pending' = Overlapped(k, mine)

\* The read of caller k's seek settles and the seek runs to its end.
OverlapResume ==
    /\ \E k \in Callers :
          /\ pending[k].status = "awaiting"
          /\ LET h == pending[k].h
                 t == Iter_seekTail(IterCursor, h, fsRead(h.readSize, h.readPosition))
             IN  /\ IterFields(t.c)
                 /\ pending' = [pending EXCEPT ![k].status = "returned",
                                               ![k].result = t.result]

\* set(position) by a caller while another caller's seek awaits its read.
OverlapSet ==
    /\ cursor = "iterable" /\ Idle
    /\ \E k \in Callers, position \in 0..MaxPosition :
          /\ pending[k].status = "idle"
          /\ Awaiting(k) # {}
          /\ IterFields(Iter_set(IterCursor, Num(position)).c)
          /\ pending' = Displaced(k)

\* Caller k takes the bytes its seek returned.
OverlapTake ==
    /\ \E k \in Callers :
          /\ pending[k].status = "returned"
          /\ pending' = [pending EXCEPT ![k] = [NoSeek EXCEPT !.status = "done"]]
    /\ UNCHANGED <<file, cursor, fd, bufferSize, _buffer, _index, _position, _eof,
                   buffer, relIndex, absIndex, eofReached, startFrom, endAt,
                   call, delivered, sequential, origin, shortFetch, fetches>>

\* A seek awaited to its end while no other call is in flight or untaken.
SerialSeek ==
    /\ \A k \in Callers : pending[k].status \in {"idle", "done"}
    /\ IterSeek

NextOverlap ==
    \/ IterConstruct
    \/ TakeResult
    \/ SerialSeek
    \/ OverlapSeek
    \/ OverlapResume
    \/ OverlapSet
    \/ OverlapTake

SpecOverlap == Init /\ [][NextOverlap]_vars

\* ================================================================ properties
\* C1: in the iterable variant a seek(length) call issues at most one read to
\* the file, whatever the length, the buffer size and the state of the cache.
C1_SeekAtMostOneRead ==
    (call.class = "iterable" /\ call.op = "seek") => Len(call.reads) <= 1

\* A seek longer than the buffer, served partly from the cache, that read once.
C1_Witness ==
    /\ call.class = "iterable" /\ call.op = "seek" /\ call.threw = "none"
    /\ call.arg.val > bufferSize
    /\ call.pre._index < Len(call.pre._buffer)
    /\ Len(call.reads) = 1

\* C2: in the iterable variant seek(n) at position p returns the file's bytes
\* at offsets [p, min(p + n, L)) and leaves position = p + length(result),
\* after any sequence of earlier calls.
C2_SeekReturnsSourceBytes ==
    (call.class = "iterable" /\ call.op = "seek" /\ call.threw = "none") =>
        LET p == Iter_position(call.pre)
        IN  /\ call.result = Bytes(p, p + call.arg.val)
            /\ Iter_position(IterCursor) = p + Len(call.result)

\* A seek that took one byte from the cache and one from the read it issued.
C2_Witness ==
    /\ call.class = "iterable" /\ call.op = "seek" /\ call.threw = "none"
    /\ call.pre._index > 0
    /\ call.pre._index < Len(call.pre._buffer)
    /\ Len(call.reads) = 1
    /\ Len(call.result) = 2
    /\ _position > 0 /\ _index > 0

\* C3: in the windowed variant, after every seek(n) the position equals the
\* position before plus the number of bytes returned, and at most n bytes
\* are returned, also when the refill finds no more bytes.
C3_SeekAdvancesByResult ==
    (call.class = "windowed" /\ call.op = "seek" /\ call.threw = "none") =>
        /\ Win_position(WinCursor) = Win_position(call.pre) + Len(call.result)
        /\ Len(call.result) <= call.arg.val

\* C4: iterating the iterable variant from its initial position p0 yields
\* non-empty chunks whose concatenation is the file's bytes from p0 to the
\* position reached, and the whole of [p0, L) when next() reports done.
C4_IterationRoundTrip ==
    (cursor = "iterable" /\ sequential) =>
        /\ Concat(delivered) = Bytes(origin, Iter_position(IterCursor))
        /\ \A i \in 1..Len(delivered) : delivered[i] # <<>>
        /\ (call.op = "next" /\ ~call.done) => call.result # <<>>
        /\ (call.op = "next" /\ call.done) =>
              Concat(delivered) = Bytes(origin, Len(file))

\* An iteration from initial position 1 that yielded two chunks and has ended.
C4_Witness ==
    /\ cursor = "iterable" /\ sequential
    /\ call.op = "next" /\ call.done
    /\ origin = 1
    /\ Len(delivered) = 2
\* The first offset past the readable part of the window: the end of the
\* file or the byte after the inclusive window end.
WindowLimit(c) ==
    IF c.endAt.kind = "inf" THEN Len(file) ELSE Min(Len(file), c.endAt.val + 1)

\* The bytes left between the position of c and end-of-data.
Remaining(c) == Max(0, WindowLimit(c) - (c.startFrom + Win_position(c)))

\* C5: in the windowed variant with inclusive bounds s..e over a file longer
\* than s, reading a fresh cursor to EOF with seek, read and seekUntil
\* delivers exactly the file's bytes at offsets s..min(e, L - 1), starting
\* with the byte at offset s for logical position 0.
C5_WindowReadsInclusiveRange ==
    ( /\ cursor = "windowed" /\ sequential
      /\ call.op \in {"seek", "read", "seekUntil"}
      /\ Len(file) > startFrom
      /\ Win_EOF(WinCursor) ) =>
        Concat(delivered) = Bytes(startFrom, WindowLimit(WinCursor))

\* C6: in the windowed variant read(n) with a valid n throws Truncated
\* exactly when fewer than n bytes remain before end-of-data (end of file or
\* inclusive window end), and returns exactly n bytes otherwise.
C6_ReadTruncatedIffShort ==
    ( /\ call.class = "windowed" /\ call.op = "read"
      /\ NumberIsInteger(call.arg) /\ call.arg.val >= 0 ) =>
        /\ (call.threw = "Truncated") <=> (Remaining(call.pre) < call.arg.val)
        /\ (call.threw = "none") => (Len(call.result) = call.arg.val)

\* An argument that is no non-negative integer.
InvalidArg(arg) == ~(arg.kind = "int" /\ arg.val >= 0)

\* C7: seek, read, set, skip or a position assignment with an argument that
\* is no non-negative integer throws, issues no read and leaves every field
\* of the cursor as it was.
C7_InvalidArgLeavesState ==
    ( /\ call.op \in {"seek", "read", "set", "skip", "position"}
      /\ InvalidArg(call.arg) ) =>
        /\ call.threw = "TypeError"
        /\ call.reads = <<>>
        /\ call.class = "iterable" => IterCursor = call.pre
        /\ call.class = "windowed" => WinCursor = call.pre

\* A rejected set() on an iterable cursor whose end-of-file flag is up.
C7_Witness ==
    /\ call.class = "iterable" /\ call.op = "set"
    /\ InvalidArg(call.arg) /\ call.threw = "TypeError"
    /\ _eof = TRUE /\ _buffer # <<>>

\* Options the windowed constructor has to reject.
BadWinOptions(o) ==
    \/ o.fileHandle = Undefined /\ o.fileDescriptor = Undefined
    \/ o.bufferSize # Undefined /\ ~(o.bufferSize.kind = "int" /\ o.bufferSize.val > 0)
    \/ o.startFrom # Undefined /\ ~(o.startFrom.kind = "int" /\ o.startFrom.val >= 0)
    \/ o.endAt # Undefined /\ o.endAt.kind \notin {"int", "inf"}
    \/ /\ o.endAt.kind = "int"
       /\ o.startFrom = Undefined \/ o.startFrom.kind = "int"
       /\ o.endAt.val < (IF o.startFrom = Undefined THEN 0 ELSE o.startFrom.val)

\* Options that give a source and nothing else.
OnlySource(o) ==
    /\ o.fileHandle # Undefined \/ o.fileDescriptor.kind = "int"
    /\ o.bufferSize = Undefined /\ o.startFrom = Undefined /\ o.endAt = Undefined

\* C8: the windowed constructor fails without a source, with a bufferSize
\* that is no positive integer, a startFrom that is no non-negative integer,
\* an endAt that is neither an integer nor +Infinity, or endAt < startFrom;
\* with only a source it yields position 0, EOF false and an empty cache.
C8_ConstructorValidation ==
    (call.class = "windowed" /\ call.op = "constructor") =>
        /\ BadWinOptions(call.arg) => (call.threw # "none" /\ cursor = "failed")
        /\ OnlySource(call.arg) =>
              /\ call.threw = "none" /\ cursor = "windowed"
              /\ Win_position(WinCursor) = 0
              /\ ~Win_EOF(WinCursor)
              /\ buffer = <<>>
              /\ bufferSize = DefaultBufferSize

\* A construction rejected only because bufferSize is 0.
C8_Witness ==
    /\ call.class = "windowed" /\ call.op = "constructor"
    /\ call.arg.fileHandle # Undefined
    /\ call.arg.bufferSize = Num(0)
    /\ call.arg.startFrom = Num(1) /\ call.arg.endAt = Num(1)
    /\ cursor = "failed"

\* The position a set, skip or position assignment asks for.
Target(c) ==
    IF c.op = "skip" THEN Iter_position(c.pre) + c.arg.val ELSE c.arg.val

\* A repositioning of the iterable cursor to an offset its cache holds.
CacheHit ==
    /\ call.class = "iterable" /\ call.op \in {"position", "set", "skip"}
    /\ call.threw = "none"
    /\ Target(call) >= call.pre._position
    /\ Target(call) < call.pre._position + Len(call.pre._buffer)

\* C9 as claimed: a repositioning inside the cache reads nothing and changes
\* only the cache index; buffer, base and the end-of-data flag are kept.
C9_CacheHitChangesOnlyIndex ==
    CacheHit =>
        /\ call.reads = <<>>
        /\ _buffer = call.pre._buffer
        /\ _position = call.pre._position
        /\ _eof = call.pre._eof

\* C9 amended: a repositioning inside the cache reads nothing, keeps buffer
\* and base, moves the cache index to the target and clears the end-of-data
\* flag; skip(0) alone leaves the flag as it was.
C9_CacheHitKeepsCacheClearsFlag ==
    CacheHit =>
        /\ call.reads = <<>>
        /\ _buffer = call.pre._buffer
        /\ _position = call.pre._position
        /\ _index = Target(call) - call.pre._position
        /\ _eof = IF call.op = "skip" /\ call.arg.val = 0
                  THEN call.pre._eof ELSE FALSE

\* A set() back into the cache of a cursor that had seen the end of the file.
C9_Witness ==
    /\ CacheHit /\ call.op = "set"
    /\ call.pre._eof = TRUE
    /\ _index # call.pre._index
    /\ _buffer # <<>>

\* What set(position + n) makes of the cursor as it was before the call.
SetFromPre == Iter_set(call.pre, Num(Iter_position(call.pre) + call.arg.val)).c

\* C10 as claimed: for every n >= 0, 0 included, skip(n) leaves the iterable
\* cursor in the state (position, cache, eof) set(position + n) would.
C10_SkipIsSet ==
    (call.class = "iterable" /\ call.op = "skip" /\ call.threw = "none") =>
        /\ IterCursor = SetFromPre
        /\ Iter_eof(IterCursor) = Iter_eof(SetFromPre)

\* C10 amended: for n > 0 skip(n) leaves the cursor in the state
\* set(position + n) would; skip(0) leaves the cursor untouched.
C10_SkipIsSetUnlessZero ==
    (call.class = "iterable" /\ call.op = "skip" /\ call.threw = "none") =>
        IF call.arg.val > 0
        THEN IterCursor = SetFromPre
        ELSE IterCursor = call.pre

\* A skip(n), n > 0, from inside a cache that is not at the file's start.
C10_Witness ==
    /\ call.class = "iterable" /\ call.op = "skip" /\ call.threw = "none"
    /\ call.arg.val > 0
    /\ call.pre._position > 0 /\ call.pre._index > 0
    /\ call.pre._eof = TRUE

\* A byte is retrievable at logical position p of the cursor c: offset
\* startFrom + p lies inside the file and inside the inclusive window.
Retrievable(c, p) ==
    /\ c.startFrom + p < Len(file)
    /\ c.endAt.kind = "int" => p < c.endAt.val - c.startFrom + 1

\* C11: in the windowed variant, after set(p) completes EOF is true exactly
\* when no byte is retrievable at p (p >= endAt - startFrom + 1 or
\* startFrom + p >= L); EOF is false after set(endAt - startFrom) when that
\* offset is inside the file.
C11_SetEofIffNoByte ==
    (call.class = "windowed" /\ call.op = "set" /\ call.threw = "none") =>
        (Win_EOF(WinCursor) <=> ~Retrievable(WinCursor, call.arg.val))

\* C11 away from the window's last byte: the same equivalence for every
\* set(p) with startFrom + p # endAt.
C11_ExceptWindowEnd ==
    ( /\ call.class = "windowed" /\ call.op = "set" /\ call.threw = "none"
      /\ ~(endAt.kind = "int" /\ startFrom + call.arg.val = endAt.val) ) =>
        (Win_EOF(WinCursor) <=> ~Retrievable(WinCursor, call.arg.val))

\* The cached chunk of the iterable cursor is fully consumed.
Consumed == _index >= Len(_buffer)

\* C12: in the iterable variant eof is true exactly when a read has come back
\* short since the position was last set and the cached chunk is fully
\* consumed (so a read that returns all the bytes asked for never makes eof
\* true), and once eof is true it stays true across every seek, seek(0) and
\* next() call.
C12_EofAfterShortFetch ==
    /\ [](cursor = "iterable" => (Iter_eof(IterCursor) <=> (shortFetch /\ Consumed)))
    /\ [][ ( /\ cursor = "iterable" /\ Iter_eof(IterCursor)
             /\ call'.op \in {"seek", "next"} ) => Iter_eof(IterCursor') ]_vars

\* A seek(0) at eof, after a short read whose chunk was then consumed, that
\* leaves eof true.
C12_Witness ==
    /\ call.class = "iterable" /\ call.op = "seek" /\ call.arg = Num(0)
    /\ shortFetch /\ Len(_buffer) > 0
    /\ Iter_eof(call.pre) /\ Iter_eof(IterCursor)

\* The bytes seekUntil(predicate) is to consume from the cursor c: those from
\* its position up to and including the first one the predicate accepts, or
\* up to end-of-data. Each is given with its logical position.
Consumable(c, predicate) ==
    LET p0 == Win_position(c)
        n == Remaining(c)
        at(i) == [byte |-> file[c.startFrom + p0 + i], position |-> p0 + i - 1]
        hits == {i \in 1..n : Apply(predicate, at(i).byte, at(i).position)}
        k == IF hits = {} THEN n ELSE CHOOSE i \in hits : \A j \in hits : i <= j
    IN  [i \in 1..k |-> at(i)]

\* C13: in the windowed variant seekUntil(predicate) invokes the predicate
\* once per returned byte, in order, with the byte and its logical position,
\* and returns the bytes from the position up to and including the first
\* accepted one, or up to end-of-data; it never invokes the predicate for a
\* position holding no byte.
C13_PredicateOncePerByte ==
    (call.class = "windowed" /\ call.op = "seekUntil") =>
        LET expected == Consumable(call.pre, call.arg)
        IN  /\ call.calls = expected
            /\ call.result = [i \in 1..Len(expected) |-> expected[i].byte]

\* C13 for the calls that end on a byte the predicate accepts before any
\* refill comes back empty.
C13_WhenNoEmptyRefill ==
    ( /\ call.class = "windowed" /\ call.op = "seekUntil"
      /\ \A i \in 1..Len(call.calls) : call.calls[i].byte # undefinedByte
      /\ ~(call.pre.endAt.kind = "int" /\ Win_EOB(call.pre)
           /\ call.pre.startFrom + Win_position(call.pre) = call.pre.endAt.val) ) =>
        LET expected == Consumable(call.pre, call.arg)
        IN  /\ call.calls = expected
            /\ call.result = [i \in 1..Len(expected) |-> expected[i].byte]

\* C14: in the windowed variant seekUntil with a predicate that always
\* returns true has the result and leaves the cursor state seek(1) would,
\* and the other way round; when a byte remains before end-of-data exactly
\* one byte is consumed.
C14_AlwaysTrueIsSeekOne ==
    /\ (call.class = "windowed" /\ call.op = "seekUntil" /\ call.arg = Always) =>
          /\ call.result = Win_seek(call.pre, Num(1)).result
          /\ WinCursor = Win_seek(call.pre, Num(1)).c
          /\ Remaining(call.pre) >= 1 =>
                /\ Len(call.result) = 1
                /\ Win_position(WinCursor) = Win_position(call.pre) + 1
    /\ (call.class = "windowed" /\ call.op = "seek" /\ call.arg = Num(1)) =>
          /\ call.result = Win_seekUntil(call.pre, Always).result
          /\ WinCursor = Win_seekUntil(call.pre, Always).c
          /\ Remaining(call.pre) >= 1 =>
                /\ Len(call.result) = 1
                /\ Win_position(WinCursor) = Win_position(call.pre) + 1

\* C14, the equivalence alone: same result and same cursor state, whether or
\* not a byte was consumed.
C14_SameResultAndState ==
    /\ (call.class = "windowed" /\ call.op = "seekUntil" /\ call.arg = Always) =>
          /\ call.result = Win_seek(call.pre, Num(1)).result
          /\ WinCursor = Win_seek(call.pre, Num(1)).c
    /\ (call.class = "windowed" /\ call.op = "seek" /\ call.arg = Num(1)) =>
          /\ call.result = Win_seekUntil(call.pre, Always).result
          /\ WinCursor = Win_seekUntil(call.pre, Always).c

\* C14 away from the window's last byte: the calls that do not start with an
\* exhausted cache exactly at offset endAt.
C14_ExceptWindowEnd ==
    ( /\ call.class = "windowed"
      /\ \/ call.op = "seekUntil" /\ call.arg = Always
         \/ call.op = "seek" /\ call.arg = Num(1)
      /\ Remaining(call.pre) >= 1
      /\ ~(call.pre.endAt.kind = "int" /\ Win_EOB(call.pre)
           /\ call.pre.startFrom + Win_position(call.pre) = call.pre.endAt.val) ) =>
        /\ Len(call.result) = 1
        /\ Win_position(WinCursor) = Win_position(call.pre) + 1

\* The logical position a windowed call with the argument arg, started from
\* the cursor c, issues its first read for: the target of set and skip, the
\* position reached once the rest of the cache is consumed for the others.
FirstFetch(c, op, arg) ==
    CASE op = "set" -> arg.val
      [] op = "skip" -> Win_position(c) + arg.val
      [] OTHER -> Win_position(c) + Max(0, Len(c.buffer) - c.relIndex)

\* C15: in the windowed variant every read starts at absolute offset
\* startFrom + logical position (the target of set or skip, the position the
\* cache runs out at for seek, read and seekUntil, each further read where
\* the one before ended) and covers only offsets in [startFrom, endAt].
C15_ReadsInsideWindow ==
    (call.class = "windowed" /\ call.op # "constructor" /\ call.reads # <<>>) =>
        /\ call.reads[1].position = startFrom + FirstFetch(call.pre, call.op, call.arg)
        /\ call.reads[Len(call.reads)].position = startFrom + absIndex
        /\ \A i \in 1..Len(call.reads) :
              LET read == call.reads[i]
              IN  /\ read.position >= startFrom
                  /\ read.length >= 1
                  /\ endAt.kind = "int" => read.position + read.length - 1 <= endAt.val
                  /\ i > 1 => read.position = call.reads[i - 1].position
                                               + call.reads[i - 1].length

\* A sequential read whose fetch, starting inside the window, was cut below
\* bufferSize so that it ends on endAt, before the file's end.
C15_Witness ==
    /\ call.class = "windowed" /\ call.op \in {"seek", "read", "seekUntil"}
    /\ Len(call.reads) = 1
    /\ endAt.kind = "int" /\ endAt.val < Len(file) - 1
    /\ startFrom > 0
    /\ call.reads[1].position + call.reads[1].length - 1 = endAt.val
    /\ call.reads[1].length < bufferSize
    /\ Len(call.result) = call.reads[1].length

\* The last next() reported done.
Done == call.class = "iterable" /\ call.op = "next" /\ call.done

\* C16: iterating the iterable variant with serialized next() calls
\* terminates: a next() reports done; at that moment eof is true and the
\* position is the larger of the initial position and the file's size; every
\* later next() reports done too (done leaves eof true, and a next() called
\* with eof true reports done).
C16_IterationTerminates ==
    /\ (cursor = "iterable") ~> Done
    /\ [](Done => /\ Iter_eof(IterCursor)
                  /\ Iter_position(IterCursor) = Max(origin, Len(file)))
    /\ [][ (cursor = "iterable" /\ Iter_eof(IterCursor) /\ call'.op = "next")
              => call'.done ]_vars

\* An iteration from position 0 that ended after three chunks, one read
\* past them.
C16_Witness ==
    /\ Done /\ sequential
    /\ origin = 0
    /\ Len(delivered) = 3
    /\ fetches = 4
    /\ Iter_eof(IterCursor)

\* C17: in every reachable state of the windowed variant the cache index
\* relIndex is between 0 and the length of the cache buffer, inclusive.
C17_RelIndexWithinBuffer ==
    cursor = "windowed" => (0 <= relIndex /\ relIndex <= Len(buffer))

\* C17 but for the one state it fails in: index 1 over an empty buffer, left
\* by a seekUntil whose refill came back empty.
C17_ExceptEmptyRefill ==
    cursor = "windowed" =>
        \/ 0 <= relIndex /\ relIndex <= Len(buffer)
        \/ buffer = <<>> /\ relIndex = 1 /\ eofReached

\* C18: in every reachable state of the windowed variant the cache buffer
\* holds at most bufferSize bytes, and every read asks the source for at most
\* bufferSize bytes.
C18_CacheAtMostBufferSize ==
    cursor = "windowed" =>
        /\ Len(buffer) <= bufferSize
        /\ \A i \in 1..Len(call.reads) : call.reads[i].length <= bufferSize

\* C18 with the one excess the code allows: a read that starts exactly
\* bufferSize bytes before endAt asks for bufferSize + 1 bytes.
C18_ExceptOneBeforeWindowEnd ==
    cursor = "windowed" =>
        /\ Len(buffer) <= bufferSize + 1
        /\ Len(buffer) = bufferSize + 1 =>
              (endAt.kind = "int" /\ startFrom + absIndex + bufferSize = endAt.val)
        /\ \A i \in 1..Len(call.reads) :
              \/ call.reads[i].length <= bufferSize
              \/ /\ call.reads[i].length = bufferSize + 1
                 /\ endAt.kind = "int"
                 /\ call.reads[i].position + bufferSize = endAt.val

\* The length a seek or next call of the iterable variant asks for.
Wanted == IF call.op = "next" THEN call.pre.bufferSize ELSE call.arg.val

\* The bytes that call takes from the cache it finds.
FromCache ==
    IF call.pre._index < Len(call.pre._buffer)
    THEN Min(Len(call.pre._buffer) - call.pre._index, Wanted)
    ELSE 0

\* C19: in the iterable variant a seek that issues a read starts it at the
\* position reached after the bytes taken from the cache (the initial
\* position for the first read of a fresh cursor) and asks for exactly
\* max(bufferSize, length - bytes taken from the cache) bytes; the read asks
\* for no byte of the cache.
C19_ReadStartsAfterHead ==
    ( /\ call.class = "iterable" /\ call.op \in {"seek", "next"}
      /\ call.reads # <<>> ) =>
        LET read == call.reads[1]
        IN  /\ read.position = Iter_position(call.pre) + FromCache
            /\ read.length = Max(call.pre.bufferSize, Wanted - FromCache)
            /\ read.position >= call.pre._position + Len(call.pre._buffer)
            /\ (sequential /\ fetches = 1) => read.position = origin

\* A seek that took a byte from a cache not at the file's start and read the
\* rest, more than bufferSize bytes.
C19_Witness ==
    /\ call.class = "iterable" /\ call.op = "seek"
    /\ call.reads # <<>>
    /\ FromCache > 0
    /\ Wanted - FromCache > call.pre.bufferSize
    /\ call.pre._position > 0

\* C20: in the iterable variant, once a read has come back short no seek or
\* next() call issues another read until the position is set; an iteration
\* from position 0 over L bytes with bufferSize b has issued exactly
\* L \div b + 1 reads when it ends; a seek the cache satisfies in full issues
\* no read.
C20_NoReadAfterShortFetch ==
    /\ [][ (cursor = "iterable" /\ shortFetch /\ call'.op \in {"seek", "next"})
              => call'.reads = <<>> ]_vars
    /\ []((Done /\ sequential /\ origin = 0) =>
              fetches = (Len(file) \div bufferSize) + 1)
    /\ []( ( /\ call.class = "iterable" /\ call.op \in {"seek", "next"}
             /\ call.threw = "none"
             /\ Wanted <= Len(call.pre._buffer) - call.pre._index ) =>
              call.reads = <<>> )

\* An iteration from position 0 over 3 bytes with bufferSize 2, ended by a
\* next() that issued no read after the short second read.
C20_Witness ==
    /\ Done /\ sequential /\ origin = 0
    /\ Len(file) = 3 /\ bufferSize = 2
    /\ shortFetch
    /\ call.reads = <<>>
    /\ fetches = 2

\* C21: in both variants seek(0), and read(0) in the windowed variant,
\* succeeds in every reachable state, end-of-data included, returns an empty
\* result, issues no read and leaves the cursor (position, cache, eof flag)
\* as it was.
C21_ZeroLengthIsNoOp ==
    (call.op \in {"seek", "read"} /\ call.arg = Num(0)) =>
        /\ call.threw = "none"
        /\ call.result = <<>>
        /\ call.reads = <<>>
        /\ call.class = "iterable" =>
              /\ IterCursor = call.pre
              /\ Iter_position(IterCursor) = Iter_position(call.pre)
              /\ Iter_eof(IterCursor) = Iter_eof(call.pre)
        /\ call.class = "windowed" =>
              /\ WinCursor = call.pre
              /\ call.calls = <<>>
              /\ Win_position(WinCursor) = Win_position(call.pre)
              /\ Win_EOF(WinCursor) = Win_EOF(call.pre)

\* A read(0) at end-of-data of a windowed cursor whose cache still holds the
\* last chunk.
C21_Witness ==
    /\ call.class = "windowed" /\ call.op = "read" /\ call.arg = Num(0)
    /\ call.threw = "none"
    /\ Win_EOF(call.pre)
    /\ Len(buffer) > 0 /\ absIndex > 0

\* C22: constructing the iterable variant fails for every supplied
\* bufferSize that is not a positive integer, 0 included, and for every
\* supplied position that is not a non-negative integer.
C22_IterableConstructorValidation ==
    (call.class = "iterable" /\ call.op = "constructor" /\ call.arg.kind = "object") =>
        LET size == call.arg.bufferSize
            position == call.arg.position
        IN  /\ (size # Undefined /\ ~(isInteger(size) /\ size.val > 0)) =>
                  call.threw # "none"
            /\ (position # Undefined /\ ~(isInteger(position) /\ position.val >= 0)) =>
                  call.threw # "none"

\* C22 for the supplied values that are not falsy: each of them that is out
\* of range fails construction; a falsy one (0 for bufferSize) is taken as
\* not supplied.
C22_ExceptFalsy ==
    (call.class = "iterable" /\ call.op = "constructor" /\ call.arg.kind = "object") =>
        LET size == call.arg.bufferSize
            position == call.arg.position
        IN  /\ (~Falsy(size) /\ ~(isInteger(size) /\ size.val > 0)) =>
                  call.threw # "none"
            /\ (~Falsy(position) /\ ~(isInteger(position) /\ position.val >= 0)) =>
                  call.threw # "none"
            /\ (size = Num(0) /\ call.threw = "none") => bufferSize = DefaultBufferSize

\* The cache of the iterable cursor holds the file's bytes at its recorded
\* base.
Coherent == _buffer = Bytes(_position, _position + Len(_buffer))

\* Both callers' seeks have returned after racing: with nothing left in the
\* cache each issued its read, at the same position, while the other's read
\* was in flight, and no set came in between.
BothRaced ==
    /\ \A k \in Callers :
          /\ pending[k].status = "returned"
          /\ pending[k].h.state = "await"
          /\ pending[k].h.head = <<>>
          /\ pending[k].raced /\ ~pending[k].displaced
    /\ pending[1].h.readPosition = pending[2].h.readPosition

\* C23: when two seeks of the iterable variant overlap, both having issued
\* their read at the same position, both return the file's bytes from that
\* position (the same bytes for equal lengths), the position has advanced by
\* the sum of the two results' lengths, and unless the reads found nothing
\* the cache no longer holds the bytes at its recorded base.
C23_OverlappingSeeksRace ==
    BothRaced =>
        LET p == pending[1].h.readPosition
            a == pending[1].result
            b == pending[2].result
        IN  /\ a = Bytes(p, p + Len(a))
            /\ b = Bytes(p, p + Len(b))
            /\ pending[1].h.length = pending[2].h.length => a = b
            /\ Iter_position(IterCursor) = p + Len(a) + Len(b)
            /\ p < Len(file) => ~Coherent

\* Two overlapped seek(1) both returned the same byte, the position is two
\* further, and the cache, not yet consumed, is off its recorded base.
C23_Witness ==
    /\ BothRaced
    /\ pending[1].result = pending[2].result
    /\ Len(pending[1].result) = 1
    /\ Iter_position(IterCursor) = pending[1].h.readPosition + 2
    /\ ~Coherent
    /\ _index < Len(_buffer)

\* After the two overlapped seeks were taken, a seek awaited on its own has
\* returned bytes that are not the file's bytes at the position it was
\* called at.
C23_LaterSeekWrongBytes ==
    /\ \A k \in Callers : pending[k].status = "done"
    /\ call.class = "iterable" /\ call.op = "seek" /\ call.threw = "none"
    /\ call.result # <<>>
    /\ call.result # Bytes(Iter_position(call.pre),
                           Iter_position(call.pre) + Len(call.result))

\* C24: with serialized calls and an unchanging file, in every reachable
\* state of the iterable variant each cached byte _buffer[i] is the file's
\* byte at offset _position + i, and 0 <= _index <= length of _buffer.
C24_CacheCoherence ==
    cursor = "iterable" =>
        /\ \A i \in 0..(Len(_buffer) - 1) :
              /\ _position + i < Len(file)
              /\ _buffer[i + 1] = file[_position + i + 1]
        /\ 0 <= _index /\ _index <= Len(_buffer)

\* A cache of several bytes read past the file's start, consumed in part
\* after the position was set back into it.
C24_Witness ==
    /\ cursor = "iterable"
    /\ call.op \in {"set", "position", "skip"} /\ call.threw = "none"
    /\ _position > 0
    /\ Len(_buffer) >= 2
    /\ 0 < _index /\ _index < Len(_buffer)

====
